---- MODULE Spec2Model ----
(***************************************************************************)
(* The Product Placement Assistant (src/main.py): one Streamlit session    *)
(* executing main() again and again.  A script execution whose "Analyze"   *)
(* button is pressed is a run of the workflow                              *)
(*   validation -> client -> index.create -> task.create -> wait_for_done  *)
(*   -> generate.text.                                                     *)
(* The 12Labs service and its SDK are the environment: every remote call   *)
(* returns or raises, nondeterministically, and the model's steps are cut  *)
(* at the blocking remote calls.                                           *)
(* Strings built by f-strings are sequences of string tokens; str(e) of an *)
(* exception is its msg.                                                   *)
(***************************************************************************)
EXTENDS Integers, Sequences, FiniteSets, TLC

\* ---- bounds of the model ------------------------------------------------
\* script executions (reruns of main) the model follows in one session
MaxRuns == 4
\* clock ticks the model lets pass; the clock is finer than one second
MaxTime == 3
\* clock ticks per second of time.time()
TicksPerSecond == 2

\* ---- values ---------------------------------------------------------------
None == "None"
\* the values of main's locals before they are assigned
NoName == <<>>
NoIndex == [id |-> None, name |-> NoName]
NoTask == [status |-> None, video_id |-> None]
NoException == [type |-> None, msg |-> <<>>]
NoRemoteError == [op |-> None, exc |-> NoException]
Empty == <<>>

\* temperature=0.7 of client.generate.text, in tenths
TemperatureTenths == 7

DefaultPrompt ==
    "Analyze the video and provide segments of the video that are ideal for brand placements."
Prompts == {DefaultPrompt, "Where could a soda can be placed?"}
Files == {"clip.mp4"}
IndexIds == {"idx_1", "idx_2"}
VideoIds == {"vid_1", "vid_2"}
Texts == {"Segment 00:10-00:20 suits a beverage.", "No suitable segment."}

\* statuses of a remote task; wait_for_done returns on a terminal one
Statuses == {"submitted", "processing", "ready", "failed"}
Terminal == {"ready", "failed"}

\* exceptions the SDK raises from a remote call (all subclasses of Exception)
RemoteExceptions ==
    { [type |-> "APIError", msg |-> <<"quota exceeded">>],
      [type |-> "ConnectionError", msg |-> <<"connection reset">>] }

SessionKeys == {"index_id", "video_id"}

VARIABLES
    pc,                 \* where main is: new, idle, init_client, index_create,
                        \* task_create, wait, generate, done, failed, escaped
    run,                \* script executions started so far
    now,                \* time.time(), in clock ticks
    secrets,            \* TRUE iff st.secrets holds TWELVELABS_API_KEY
    user_prompt,        \* the text_area's value
    uploaded_file,      \* the file_uploader's value, or None
    session_state,      \* st.session_state: a function on the keys it holds
    client,             \* main's local client
    index_name,         \* main's local index_name
    created_index,      \* main's local created_index
    video_id,           \* main's local video_id
    task,               \* the Task object of upload_video_and_wait
    status_placeholder, \* what on_task_update last wrote
    calls,              \* remote calls issued by this script execution
    out,                \* the st.write, st.success and st.error calls of this
                        \* script execution, in order (st.title, the widgets
                        \* and the spinners are not recorded)
    remote_err,         \* the raw exception a remote call raised in this execution
    requested,          \* index names requested by earlier script executions
    visited,            \* the workflow states this execution went through
    session_before,     \* st.session_state as this execution found it
    prev_state,         \* the workflow state the previous execution ended in
    indexed             \* <<index id, video id>> of the tasks the service reported ready

vars == <<pc, run, now, secrets, user_prompt, uploaded_file, session_state, client,
          index_name, created_index, video_id, task, status_placeholder, calls,
          out, remote_err, requested, visited, session_before, prev_state, indexed>>

inputs == <<user_prompt, uploaded_file>>
env == <<now, secrets>>
history == <<session_before, prev_state>>

\* ---- results of calls -------------------------------------------------------
Ok(v) == [raised |-> FALSE, value |-> v]
Raise(e) == [raised |-> TRUE, exc |-> e]
RuntimeError(m) == [type |-> "RuntimeError", msg |-> m]

\* ---- create_twelvelabs_client ----------------------------------------------
\* st.secrets["TWELVELABS_API_KEY"] raises KeyError when the key is absent;
\* otherwise the result is whatever TwelveLabs(api_key=...) does: it returns
\* the client or raises (the constructor belongs to the SDK, so both outcomes
\* are possible whenever a key is present).
ClientExceptions == {[type |-> "Exception", msg |-> <<"api key rejected">>]}
ClientResponses == {Ok("TwelveLabs")} \cup {Raise(e) : e \in ClientExceptions}

create_twelvelabs_client_mut_hardcoded(has_key, built) == Ok("TwelveLabs")
create_twelvelabs_client(has_key, built) ==
    IF has_key THEN built
    ELSE Raise([type |-> "KeyError", msg |-> <<"TWELVELABS_API_KEY">>])

\* ---- create_index -----------------------------------------------------------
create_index_mut_nowrap(resp) == resp
create_index_mut_swallow(resp) == IF resp.raised THEN Ok(NoIndex) ELSE resp
create_index(resp) ==
    IF resp.raised
    THEN Raise(RuntimeError(<<"Failed to create index: ">> \o resp.exc.msg))
    ELSE resp

\* ---- upload_video_and_wait --------------------------------------------------
\* the except clause of upload_video_and_wait
upload_wrap_mut_nodetail(e) == RuntimeError(<<"Video upload/indexing failed">>)
upload_wrap(e) == RuntimeError(<<"Video upload/indexing failed: ">> \o e.msg)

\* on_task_update
on_task_update(t) == <<"Indexing Status: ", t.status>>

\* the check after wait_for_done returned
indexing_succeeded_mut_any(status) == TRUE
indexing_succeeded(status) == status = "ready"

\* lines 66-71: the outcome of upload_video_and_wait once wait_for_done returned
upload_outcome(t) ==
    IF ~indexing_succeeded(t.status)
    THEN Raise(upload_wrap(RuntimeError(<<"Indexing failed with status '", t.status, "'">>)))
    ELSE Ok(t.video_id)

\* lines 51-54, 147: client.task.create(index_id=created_index.id, file=video_file)
task_request_mut_stored_index(ci, file) ==
    [op |-> "task.create", index_id |-> session_state["index_id"], file |-> file]
task_request(ci, file) ==
    [op |-> "task.create", index_id |-> ci.id, file |-> file]

\* ---- generate_text_from_video ----------------------------------------------
generate_request_mut_fixed_prompt(vid, prompt) ==
    [op |-> "generate.text", video_id |-> vid, prompt |-> DefaultPrompt,
     temperature |-> TemperatureTenths]
generate_request(vid, prompt) ==
    [op |-> "generate.text", video_id |-> vid, prompt |-> prompt,
     temperature |-> TemperatureTenths]

generate_text_from_video_mut_nowrap(resp) == resp
generate_text_from_video(resp) ==
    IF resp.raised
    THEN Raise(RuntimeError(<<"Text generation failed: ">> \o resp.exc.msg))
    ELSE resp

\* ---- main -------------------------------------------------------------------
\* index_name = f"my_product_index_{int(time.time())}"
IndexName(t) == <<"my_product_index_", ToString(t \div TicksPerSecond)>>

\* lines 108-111
InitSessionState_mut_reset(ss) == [k \in SessionKeys |-> None]
InitSessionState(ss) ==
    [k \in SessionKeys |-> IF k \in DOMAIN ss THEN ss[k] ELSE None]

\* line 139: st.session_state.index_id = created_index.id
store_index_id(ss, ci) == [ss EXCEPT !["index_id"] = ci.id]

\* line 148: st.session_state.video_id = video_id
store_video_id_mut_wrong_key(ss, vid) == [ss EXCEPT !["index_id"] = vid]
store_video_id(ss, vid) == [ss EXCEPT !["video_id"] = vid]

\* "if not uploaded_file"
file_missing_mut_never(f) == FALSE
file_missing(f) == f = None

\* "except RuntimeError as e" of main
Caught_mut_value_error(e) == e.type = "ValueError"
Caught(e) == e.type = "RuntimeError"

Error(text) == [kind |-> "error", text |-> text]
Success(text) == [kind |-> "success", text |-> text]
Write(text) == [kind |-> "write", text |-> text]

\* line 98, the first thing every execution of main writes
Intro ==
    Write(<<"Upload a video and click 'Analyze' to generate product placement insights.">>)

ValidationError == Error(<<"No video file provided. Please upload a valid file.">>)
ClientInitError ==
    Error(<<"Could not initialize 12Labs client. Check your API key setup in st.secrets.">>)
\* the character U+2014 (EM DASH) of line 141, which a string of this module
\* cannot hold: one token standing for that one character
EmDash == "U+2014"
OopsLead == <<"Oops, it's not you", EmDash, "it's us. Please try again.\n\nDetails: ">>
Oops(e) == Error(OopsLead \o e.msg)
IndexCreated(ci) ==
    Success(<<"Index created: ">> \o ci.name \o <<" (ID: ", ci.id, ")">>)
IndexingCompleted == Success(<<"Video indexing completed successfully!">>)
GenerationSuccessful == Success(<<"Text generation successful!">>)
InsightsHeading == Write(<<"## Product placement insights">>)

\* the workflow state main is in at a position of the code
StateOf(p) ==
    CASE p \in {"new", "idle", "init_client"} -> "Idle"
      [] p = "index_create" -> "CreatingCollection"
      [] p \in {"task_create", "wait"} -> "Uploading"
      [] p = "generate" -> "Generating"
      [] p = "done" -> "Done"
      [] p = "failed" -> "Failed"
      [] OTHER -> "Crashed"
State == StateOf(pc)

Visit(p) ==
    IF visited # <<>> /\ visited[Len(visited)] = StateOf(p)
    THEN visited ELSE Append(visited, StateOf(p))

NamesRequested ==
    {calls[i].name : i \in {j \in DOMAIN calls : calls[j].op = "index.create"}}

ScriptIdle == pc \in {"new", "idle", "done", "failed", "escaped"}

\* lines 97-118: what every execution of main does before it looks at the button
StartScript ==
    /\ run < MaxRuns
    /\ run' = run + 1
    /\ session_state' = InitSessionState(session_state)
    /\ requested' = requested \cup NamesRequested
    /\ client' = None /\ index_name' = NoName /\ created_index' = NoIndex
    /\ video_id' = None /\ task' = NoTask /\ status_placeholder' = Empty
    /\ remote_err' = NoRemoteError
    /\ session_before' = session_state
    /\ prev_state' = State
    /\ UNCHANGED <<env, indexed>>

\* the user edits the prompt or the upload: the script reruns, button not pressed
Rerun(p, f) ==
    /\ ScriptIdle
    /\ StartScript
    /\ user_prompt' = p /\ uploaded_file' = f
    /\ pc' = "idle" /\ calls' = <<>> /\ out' = <<Intro>>
    /\ visited' = <<"Idle">>

\* the handlers of main: an exception it catches ends the run in st.error,
\* any other leaves main as a raw exception
Abort_mut_silent(e) ==
    IF Caught(e)
    THEN /\ pc' = "failed" /\ out' = out /\ visited' = Visit("failed")
    ELSE /\ pc' = "escaped" /\ out' = out /\ visited' = Visit("escaped")
Abort(e) ==
    IF Caught(e)
    THEN /\ pc' = "failed" /\ out' = Append(out, Oops(e)) /\ visited' = Visit("failed")
    ELSE /\ pc' = "escaped" /\ out' = out /\ visited' = Visit("escaped")

\* lines 120-124: "Analyze" pressed
Analyze ==
    /\ pc \in {"idle", "done", "failed", "escaped"}
    /\ StartScript
    /\ UNCHANGED inputs
    /\ calls' = <<>>
    /\ IF file_missing(uploaded_file)
       THEN /\ pc' = "failed" /\ out' = <<Intro, ValidationError>>
            /\ visited' = <<"Idle", "Failed">>
       ELSE /\ pc' = "init_client" /\ out' = <<Intro>>
            /\ visited' = <<"Idle">>

\* lines 126-134
InitClient(built) ==
    /\ pc = "init_client"
    /\ LET r == create_twelvelabs_client(secrets, built) IN
       IF r.raised
       THEN /\ pc' = "failed" /\ out' = Append(out, ClientInitError)
            /\ visited' = Visit("failed")
            /\ UNCHANGED <<client, index_name, calls>>
       ELSE /\ client' = r.value
            /\ index_name' = IndexName(now)
            /\ calls' = Append(calls, [op |-> "index.create", name |-> IndexName(now)])
            /\ pc' = "index_create" /\ out' = out
            /\ visited' = Visit("index_create")
    /\ UNCHANGED <<run, history, indexed, env, inputs, session_state,
                   created_index, video_id, task, status_placeholder, remote_err,
                   requested>>

\* lines 135-147: client.index.create answered
IndexCreateAnswers(resp) ==
    /\ pc = "index_create"
    /\ LET r == create_index(resp) IN
       IF r.raised
       THEN /\ Abort(r.exc)
            /\ UNCHANGED <<created_index, session_state, calls>>
       ELSE /\ created_index' = r.value
            /\ out' = Append(out, IndexCreated(r.value))
            /\ session_state' = store_index_id(session_state, r.value)
            /\ calls' = Append(calls, task_request(r.value, uploaded_file))
            /\ pc' = "task_create" /\ visited' = Visit("task_create")
    /\ remote_err' = IF resp.raised THEN [op |-> "index.create", exc |-> resp.exc]
                     ELSE remote_err
    /\ UNCHANGED <<run, history, indexed, env, inputs, client, index_name,
                   video_id, task, status_placeholder, requested>>

CreateIndexOk(id) == IndexCreateAnswers(Ok([id |-> id, name |-> index_name]))
CreateIndexFail(e) == IndexCreateAnswers(Raise(e))

\* the service reports task t of this run's index: once "ready", its video is
\* indexed into that index
NoteReady(t) ==
    IF t.status = "ready" THEN indexed \cup {<<created_index.id, t.video_id>>}
    ELSE indexed

\* lines 51-64: client.task.create answered; on success wait_for_done starts
TaskCreateAnswers(resp) ==
    /\ pc = "task_create"
    /\ IF resp.raised
       THEN /\ Abort(upload_wrap(resp.exc))
            /\ remote_err' = [op |-> "task.create", exc |-> resp.exc]
            /\ task' = task
       ELSE /\ task' = resp.value
            /\ pc' = "wait" /\ out' = out /\ visited' = Visit("wait")
            /\ remote_err' = remote_err
    /\ indexed' = IF resp.raised THEN indexed ELSE NoteReady(resp.value)
    /\ UNCHANGED <<run, history, env, inputs, session_state, client, index_name,
                   created_index, video_id, status_placeholder, calls, requested>>

TaskCreateOk(s, v) == TaskCreateAnswers(Ok([status |-> s, video_id |-> v]))
TaskCreateFail(e) == TaskCreateAnswers(Raise(e))

\* line 64: one round of wait_for_done: the task is retrieved with status s and
\* the callback is called with it
Poll(s) ==
    /\ pc = "wait"
    /\ task.status \notin Terminal
    /\ task' = [task EXCEPT !.status = s]
    /\ status_placeholder' = on_task_update(task')
    /\ indexed' = NoteReady(task')
    /\ UNCHANGED <<pc, run, history, env, inputs, session_state, client,
                   index_name, created_index, video_id, calls, out, remote_err,
                   requested, visited>>

PollTerminal == \E s \in Terminal : Poll(s)

\* lines 64, 70-71: wait_for_done raises
WaitRaises(e) ==
    /\ pc = "wait"
    /\ task.status \notin Terminal
    /\ Abort(upload_wrap(e))
    /\ remote_err' = [op |-> "task.wait_for_done", exc |-> e]
    /\ UNCHANGED <<run, history, indexed, env, inputs, session_state, client,
                   index_name, created_index, video_id, task, status_placeholder,
                   calls, requested>>

\* lines 64-71, 148-157: wait_for_done returns
WaitDone ==
    /\ pc = "wait"
    /\ task.status \in Terminal
    /\ LET r == upload_outcome(task) IN
       IF r.raised
       THEN /\ Abort(r.exc)
            /\ UNCHANGED <<video_id, session_state, calls>>
       ELSE /\ video_id' = r.value
            /\ session_state' = store_video_id(session_state, r.value)
            /\ out' = Append(out, IndexingCompleted)
            /\ calls' = Append(calls, generate_request(r.value, user_prompt))
            /\ pc' = "generate" /\ visited' = Visit("generate")
    /\ UNCHANGED <<run, history, indexed, env, inputs, client, index_name,
                   created_index, task, status_placeholder, remote_err, requested>>

\* lines 79-82, 157-163: client.generate.text answered
GenerateAnswers(resp) ==
    /\ pc = "generate"
    /\ LET r == generate_text_from_video(resp) IN
       IF r.raised
       THEN Abort(r.exc)
       ELSE /\ out' = out \o <<GenerationSuccessful, InsightsHeading, Write(<<r.value>>)>>
            /\ pc' = "done" /\ visited' = Visit("done")
    /\ remote_err' = IF resp.raised THEN [op |-> "generate.text", exc |-> resp.exc]
                     ELSE remote_err
    /\ UNCHANGED <<run, history, indexed, env, inputs, session_state, client,
                   index_name, created_index, video_id, task, status_placeholder,
                   calls, requested>>

GenerateOk(text) == GenerateAnswers(Ok(text))
GenerateFail(e) == GenerateAnswers(Raise(e))

Init ==
    /\ pc = "new" /\ run = 0 /\ now = 0
    /\ secrets \in BOOLEAN
    /\ user_prompt = DefaultPrompt /\ uploaded_file = None
    /\ session_state = [k \in {} |-> None]
    /\ client = None /\ index_name = NoName /\ created_index = NoIndex
    /\ video_id = None /\ task = NoTask /\ status_placeholder = Empty
    /\ calls = <<>> /\ out = <<>> /\ remote_err = NoRemoteError
    /\ requested = {} /\ visited = <<>>
    /\ session_before = [k \in {} |-> None] /\ prev_state = None
    /\ indexed = {}

Tick ==
    /\ now < MaxTime
    /\ now' = now + 1
    /\ UNCHANGED <<pc, run, history, indexed, secrets, inputs, session_state,
                   client, index_name, created_index, video_id, task,
                   status_placeholder, calls, out, remote_err, requested, visited>>

Next ==
    \/ \E p \in Prompts, f \in Files \cup {None} : Rerun(p, f)
    \/ Analyze
    \/ \E built \in ClientResponses : InitClient(built)
    \/ \E id \in IndexIds : CreateIndexOk(id)
    \/ \E e \in RemoteExceptions : CreateIndexFail(e)
    \/ \E s \in Statuses, v \in VideoIds : TaskCreateOk(s, v)
    \/ \E e \in RemoteExceptions : TaskCreateFail(e)
    \/ \E s \in Statuses : Poll(s)
    \/ \E e \in RemoteExceptions : WaitRaises(e)
    \/ WaitDone
    \/ \E text \in Texts : GenerateOk(text)
    \/ \E e \in RemoteExceptions : GenerateFail(e)
    \/ Tick

Spec == Init /\ [][Next]_vars

\* every remote call returns or raises, and the remote task reaches a terminal status
RunStep ==
    \/ \E built \in ClientResponses : InitClient(built)
    \/ \E id \in IndexIds : CreateIndexOk(id)
    \/ \E e \in RemoteExceptions : CreateIndexFail(e)
    \/ \E s \in Statuses, v \in VideoIds : TaskCreateOk(s, v)
    \/ \E e \in RemoteExceptions : TaskCreateFail(e)
    \/ WaitDone
    \/ \E text \in Texts : GenerateOk(text)
    \/ \E e \in RemoteExceptions : GenerateFail(e)

FairSpec == Spec /\ WF_vars(RunStep) /\ WF_vars(PollTerminal)
\* ---- properties -------------------------------------------------------------
Contains(seq, tok) == \E i \in DOMAIN seq : seq[i] = tok
CallsOf(op) == Cardinality({i \in DOMAIN calls : calls[i].op = op})
GenerationIssued == CallsOf("generate.text") > 0
InVisited(st) == Contains(visited, st)
Active == pc \in {"init_client", "index_create", "task_create", "wait", "generate"}
LastOut == out[Len(out)]

\* C1: a generation request has been issued only if the task of this run has
\* been observed with status "ready"; it is never outstanding or answered while
\* the task's status is anything else.
C1_GenerateOnlyWhenReady ==
    GenerationIssued => task.status = "ready"

C1_Witness ==
    pc = "generate" /\ GenerationIssued /\ task.status = "ready"

\* C2: once client.index.create has raised in a run, the run is Failed and has
\* issued neither client.task.create nor client.generate.text.
C2_IndexFailureStopsRun ==
    remote_err.op = "index.create" =>
        /\ State = "Failed"
        /\ CallsOf("task.create") = 0
        /\ CallsOf("generate.text") = 0

C2_Witness ==
    remote_err.op = "index.create" /\ pc = "failed" /\ CallsOf("index.create") = 1

\* C3: when wait_for_done has returned with a terminal status other than
\* "ready", the run has ended with the upload/indexing error, the displayed
\* error contains that status, and no generation request was issued.
WaitEndedNotReady ==
    pc # "wait" /\ task.status \in Terminal \ {"ready"}

C3_NotReadyIsIndexingFailure ==
    WaitEndedNotReady =>
        /\ pc = "failed"
        /\ LastOut.kind = "error"
        /\ Contains(LastOut.text, "Video upload/indexing failed: ")
        /\ Contains(LastOut.text, task.status)
        /\ ~GenerationIssued

C3_Witness ==
    WaitEndedNotReady /\ pc = "failed" /\ task.status = "failed"

\* C4: a run that passed validation (it has an uploaded file) always ends, in
\* Done or in Failed, when every remote call returns or raises and the task
\* reaches a terminal status; and no run goes through both Done and Failed.
C4_RunEndsDoneOrFailed ==
    /\ Active ~> (State \in {"Done", "Failed"})
    /\ [](~(InVisited("Done") /\ InVisited("Failed")))

C4_Witness ==
    /\ pc = "done"
    /\ visited = <<"Idle", "CreatingCollection", "Uploading", "Generating", "Done">>

\* C5: after "Analyze" was pressed with no uploaded file the run has ended with
\* the validation error alone, and nothing remote was done: no client, no
\* call, no task, no status shown.
ClickedWithoutFile == uploaded_file = None /\ pc \notin {"new", "idle"}

C5_NoFileNoRemoteCall ==
    ClickedWithoutFile =>
        /\ pc = "failed"
        /\ out = <<Intro, ValidationError>>
        /\ client = None
        /\ calls = <<>>
        /\ task = NoTask
        /\ status_placeholder = Empty

C5_Witness ==
    ClickedWithoutFile /\ out = <<Intro, ValidationError>> /\ session_state["index_id"] # None

\* C6: a run that is Done has issued exactly three remote calls, in order:
\* index.create once, task.create once with the id of the index created in
\* this run and the uploaded file, generate.text once with the video id of this
\* run's task, the user's prompt and temperature 0.7; the generated text is the
\* last thing displayed.  A run in which no remote call raised and whose task is
\* "ready" does not end in Failed.
C6_SuccessfulRun ==
    /\ pc = "done" =>
        /\ calls = << [op |-> "index.create", name |-> index_name],
                      [op |-> "task.create", index_id |-> created_index.id,
                       file |-> uploaded_file],
                      [op |-> "generate.text", video_id |-> task.video_id,
                       prompt |-> user_prompt, temperature |-> 7] >>
        /\ created_index.id \in IndexIds
        /\ task.status = "ready"
        /\ Len(out) = 6
        /\ LastOut \in {Write(<<t>>) : t \in Texts}
    /\ (remote_err = NoRemoteError /\ task.status = "ready" /\ pc # "wait"
        /\ pc # "generate") => pc = "done"

C6_Witness ==
    pc = "done" /\ user_prompt # DefaultPrompt /\ Len(calls) = 3

\* C7: the states a run goes through.
Stages == <<"Idle", "CreatingCollection", "Uploading", "Generating", "Done">>
ActiveStages == {"CreatingCollection", "Uploading", "Generating"}
ForwardEdges == {<<Stages[i], Stages[i + 1]>> : i \in 1..(Len(Stages) - 1)}
FailureEdges == {<<st, "Failed">> : st \in ActiveStages}

PathAlong(edges) ==
    \A i \in 1..(Len(visited) - 1) : <<visited[i], visited[i + 1]>> \in edges

AtMostOnceEach ==
    /\ CallsOf("index.create") <= 1
    /\ CallsOf("task.create") <= 1
    /\ CallsOf("generate.text") <= 1

\* C7 as claimed: a run moves only along Idle -> CreatingCollection ->
\* Uploading -> Generating -> Done, Failed is entered only from an active
\* stage, and each remote operation is invoked at most once.
C7_Original ==
    PathAlong(ForwardEdges \cup FailureEdges) /\ AtMostOnceEach

\* C7 amended: as claimed, except that Failed is also entered straight from
\* Idle, by the validation error and by the client-initialisation error, both
\* of which precede index creation.  No stage is re-entered, Done and Failed
\* are never left within the run, each remote operation is invoked at most once.
C7_ForwardOnly ==
    /\ PathAlong(ForwardEdges \cup FailureEdges \cup {<<"Idle", "Failed">>})
    /\ AtMostOnceEach
    /\ visited # <<>> => visited[Len(visited)] = State

C7_Witness ==
    /\ pc = "failed"
    /\ visited = <<"Idle", "CreatingCollection", "Uploading", "Generating", "Failed">>
    /\ CallsOf("generate.text") = 1

\* C9 as claimed: the index name a run requests differs from every name an
\* earlier run requested.
C9_NamesDistinct ==
    \A n \in NamesRequested : n \notin requested

\* C10 as claimed: when a run starts, session_state holds no identifier written
\* by an earlier run.
C10_Original ==
    pc \in {"idle", "init_client", "index_create"} =>
        \A k \in SessionKeys : session_state[k] = None

\* C10 amended: an identifier written by a run stays in session_state when
\* the run ends and is still held, unchanged, when a later execution of main
\* starts; the runs are independent in what they send: task.create always gets
\* the id of the index created in the same run and generate.text the video id
\* of the same run's task.
OwnIdentifiersSent ==
    \A i \in DOMAIN calls :
        /\ calls[i].op = "task.create" => calls[i].index_id = created_index.id
        /\ calls[i].op = "generate.text" => calls[i].video_id = task.video_id

C10_HeldAcrossRuns ==
    [][/\ run' # run =>
            \A k \in DOMAIN session_state : session_state'[k] = session_state[k]
       /\ OwnIdentifiersSent']_vars

C10_Witness ==
    /\ pc = "init_client"
    /\ session_state["index_id"] # None
    /\ session_state["video_id"] # None
\* C11 as claimed: no "Analyze" request ends with the client-initialisation
\* failure.
C11_Original ==
    ~(out # <<>> /\ LastOut = ClientInitError)

\* C11 amended: a missing or invalid API key produces no failure at startup.
\* The key is read and the client built each time an "Analyze" request with an
\* uploaded file is handled, so the client-initialisation failure is a
\* per-request one: every such request made while the key is missing, and
\* every such request for which the client constructor raises, ends with the
\* client-initialisation failure and nothing else, before any remote call.
RequestWithFile == uploaded_file # None /\ pc \notin {"new", "idle"}

ClientInitPassed == pc # "init_client"

C11_KeyReadPerRequest ==
    /\ Contains(out, ClientInitError) => RequestWithFile
    /\ RequestWithFile =>
        /\ ~secrets =>
            /\ pc \in {"init_client", "failed"}
            /\ client = None
        /\ (ClientInitPassed /\ client = None) =>
            /\ pc = "failed"
            /\ out = <<Intro, ClientInitError>>
        /\ Contains(out, ClientInitError) => (ClientInitPassed /\ client = None)
        /\ client = None => calls = <<>>

C11_Witness ==
    /\ RequestWithFile /\ secrets /\ pc = "failed"
    /\ out = <<Intro, ClientInitError>> /\ client = None /\ calls = <<>>
\* C12: an exception raised by a remote call never leaves main as a raw
\* exception; the run is Failed and the one error it shows is that of the stage
\* whose call raised, followed by the original message.
StagePrefix(op) ==
    CASE op = "index.create" -> "Failed to create index: "
      [] op \in {"task.create", "task.wait_for_done"} -> "Video upload/indexing failed: "
      [] op = "generate.text" -> "Text generation failed: "

ErrorsShown == Cardinality({i \in DOMAIN out : out[i].kind = "error"})

C12_RemoteErrorsWrapped ==
    /\ pc # "escaped"
    /\ remote_err.op # None =>
        /\ pc = "failed"
        /\ ErrorsShown = 1
        /\ LastOut.kind = "error"
        /\ LastOut.text =
              OopsLead \o <<StagePrefix(remote_err.op)>> \o remote_err.exc.msg

C12_Witness ==
    remote_err.op = "generate.text" /\ pc = "failed" /\ remote_err.exc.type = "APIError"

\* C13: what a run has displayed matches how it ended.  A Failed run shows
\* exactly one error and no generated text; a Done run shows the generated
\* text exactly once and no error.  "Index created" is shown only once
\* index creation has returned an index, "Video indexing completed" only
\* once the task was seen "ready".
TextsShown ==
    Cardinality({i \in DOMAIN out : out[i] \in {Write(<<t>>) : t \in Texts}})

C13_OutputsMatchOutcome ==
    /\ pc = "failed" => ErrorsShown = 1 /\ TextsShown = 0
    /\ pc = "done" => TextsShown = 1 /\ ErrorsShown = 0
    /\ \A i \in DOMAIN out :
        (out[i].kind = "success" /\ out[i].text[1] = "Index created: ") =>
            /\ created_index.id \in IndexIds
            /\ remote_err.op # "index.create"
            /\ out[i] = IndexCreated(created_index)
    /\ Contains(out, IndexingCompleted) =>
            /\ task.status = "ready"
            /\ remote_err.op \notin {"task.create", "task.wait_for_done"}

C13_Witness ==
    /\ pc = "failed" /\ remote_err.op = "generate.text"
    /\ Contains(out, IndexingCompleted) /\ Len(out) = 4
\* C14: within a run session_state.index_id changes only in the step in which
\* index creation returned an index, to that index's id, and
\* session_state.video_id only in the step in which wait_for_done returned
\* with the task "ready", to that task's video id; neither step touches the
\* other identifier, and from then on the stored identifier is the run's own.
C14_WrittenOnceAfterSuccess ==
    [][(run' = run /\ pc # "new") =>
        /\ session_state'["index_id"] # session_state["index_id"] =>
            /\ pc = "index_create" /\ pc' = "task_create"
            /\ created_index'.id \in IndexIds
            /\ session_state'["index_id"] = created_index'.id
        /\ session_state'["video_id"] # session_state["video_id"] =>
            /\ pc = "wait" /\ pc' = "generate"
            /\ task.status = "ready"
            /\ session_state'["video_id"] = task.video_id
        /\ created_index' # NoIndex => session_state'["index_id"] = created_index'.id
        /\ video_id' # None => session_state'["video_id"] = video_id'
      ]_vars

C14_Witness ==
    /\ pc = "done"
    /\ session_state["index_id"] = created_index.id
    /\ session_state["video_id"] = video_id
    /\ requested # {}
\* C15 as claimed: between runs, a stored video id always belongs to a video
\* that the service indexed into the stored index.
C15_StoredPairConsistent ==
    (pc \in {"idle", "done", "failed"} /\ session_state["video_id"] # None) =>
        <<session_state["index_id"], session_state["video_id"]>> \in indexed

\* C16: a run that ended at validation, at client initialisation or at index
\* creation has left st.session_state exactly as it found it, and so has a run
\* that has not yet got an answer from index creation.
EndedEarly ==
    /\ pc = "failed"
    /\ \/ ClickedWithoutFile
       \/ LastOut = ClientInitError
       \/ remote_err.op = "index.create"

C16_EarlyFailureKeepsIds ==
    (EndedEarly \/ pc \in {"init_client", "index_create"}) =>
        /\ DOMAIN session_state = SessionKeys
        /\ session_state = session_before

C16_Witness ==
    /\ EndedEarly /\ remote_err.op = "index.create"
    /\ session_state["index_id"] # None /\ session_state["video_id"] # None

\* C17: a Failed run can always be followed by a new "Analyze" click, and the
\* run that follows a Failed one starts over: with a file and a client built
\* its first remote call is index.create, task.create gets the id of the index this
\* run created and generate.text the video id of this run's task, whatever
\* st.session_state held when the run started.
AfterFailedRun == prev_state = "Failed" /\ RequestWithFile

C17_FailedRunDoesNotBlock ==
    /\ (pc = "failed" /\ run < MaxRuns) => ENABLED Analyze
    /\ AfterFailedRun =>
        /\ client # None =>
            /\ calls # <<>>
            /\ calls[1] = [op |-> "index.create", name |-> index_name]
        /\ \A i \in DOMAIN calls :
            /\ calls[i].op = "task.create" =>
                /\ i = 2
                /\ created_index.id \in IndexIds
                /\ calls[i].index_id = created_index.id
            /\ calls[i].op = "generate.text" =>
                /\ i = 3
                /\ task.status = "ready"
                /\ calls[i].video_id = task.video_id

C17_Witness ==
    /\ AfterFailedRun /\ pc = "wait"
    /\ session_before["index_id"] # None
    /\ created_index.id # session_before["index_id"]
    /\ CallsOf("task.create") = 1
====
